---- MODULE Spec2Model ----
(***************************************************************************)
(* TfqSimulateExpectationOpCuda (tfq_simulate_expectation_op_cuda.cu.cc):  *)
(* Compute validates its inputs, builds the qsim circuits of the batch in  *)
(* parallel (construct_f under ParallelFor, errors aggregated in           *)
(* parse_status under p_lock), and ComputeLarge then simulates the         *)
(* circuits one by one in a state vector that is grown on demand, writing  *)
(* one expectation value per (circuit, pauli sum) into the output matrix.  *)
(*                                                                         *)
(* Indices are 0-based as in the source: a std::vector of size n is a      *)
(* function with domain 0..n-1.  The state vector of the external qsim     *)
(* engine is abstracted to computational basis states: one bit per qubit,  *)
(* gates are X gates, observables are Z terms.                             *)
(***************************************************************************)
EXTENDS Integers, Sequences, FiniteSets, TLC

\* ---------------------------------------------------------------- bounds
\* largest batch size (programs.size())
MaxB == 2
\* largest number of pauli sums per circuit (dim 1 of input 3)
MaxM == 2
\* largest qubit count of a program
MaxQ == 2

\* ------------------------------------------------------ program constants
\* number of op inputs Compute insists on
RequiredInputs == 4
\* capacity the simulation context starts with
InitialCapacity == 1
\* value written for every pauli sum of an empty program
Sentinel == -2

\* ------------------------------------------------------------- statuses
OkStatus == [code |-> "OK", what |-> "", arg |-> 0]

InvalidArgument(what, arg) == [code |-> "InvalidArgument", what |-> what, arg |-> arg]

\* ------------------------------------------------------------ the inputs
\* A program after parsing: its qubit count and what its body holds.
\*   "empty" no gate; "full" one X gate on every qubit 0..nq-1, in order;
\*   "bad"   a gate that cannot be translated (e.g. an unresolved symbol).
ProgramKinds == {"empty", "full", "bad"}

ProgramSet == [nq : 1..MaxQ, kind : ProgramKinds]

\* A pauli sum of circuit i in column j: one Z term on qubit j % nq with
\* coefficient 1, or a malformed term the expectation primitive rejects.
PauliSumOf(nq, j, malformed) == [qubit |-> j % nq, malformed |-> malformed]

\* The cells of a rows x cols matrix.
Cells(rows, cols) == (0..(rows - 1)) \X (0..(cols - 1))

\* The sets of malformed cells the batches are drawn with: none, or one
\* cell; none when a program of the batch does not build, as the pauli sums
\* of such a batch are never looked at.
MalformedChoices(ps, rows, cols) ==
    IF \E n \in DOMAIN ps : ps[n].kind = "bad"
    THEN {{}}
    ELSE {{}} \cup {{c} : c \in Cells(rows, cols)}

\* ------------------------------------------------- the circuit builder
\* The gate list a program translates to.
GatesOf(p) == IF p.kind = "full" THEN [k \in 1..p.nq |-> [gate |-> "X", qubit |-> k - 1]] ELSE << >>

\* qsim's fuser as used here: every gate becomes one fused gate that names
\* the qubits it acts on and carries the gates it is made of.
FuseOf(gates) == [k \in 1..Len(gates) |-> [qubits |-> {gates[k].qubit}, gates |-> <<gates[k]>>]]

\* QsimCircuitFromProgram(program, map, num_qubits, &circuit, &fused):
\* a pure function of its inputs; on failure the outputs are left as they
\* were.
QsimCircuitFromProgram(p, nq, circuit, fused) ==
    IF p.kind = "bad"
    THEN [status |-> InvalidArgument("could not build program", nq),
          circuit |-> circuit, fused |-> fused]
    ELSE [status |-> OkStatus,
          circuit |-> [num_qubits |-> nq, gates |-> GatesOf(p)],
          fused |-> FuseOf(GatesOf(p))]

\* QsimCircuit(): a default-constructed circuit.
EmptyCircuit == [num_qubits |-> 0, gates |-> << >>]

\* The aggregation with the test for an earlier error left out.
StatusSyncLastWins(global, local) == local

\* NESTED_FN_STATUS_SYNC(global, local, lock), the assignment it makes while
\* it holds the lock: a status that already holds an error is kept.
StatusSync(global, local) == IF global.code = "OK" THEN local ELSE global

\* ---------------------------------------------------------- ParallelFor
\* The shards of [0, total) for block size bs: [k*bs, min((k+1)*bs, total)).
NumShards(total, bs) == (total + bs - 1) \div bs

Min(a, b) == IF a < b THEN a ELSE b

\* Shards that all run to the end of the range.
ShardToTheEnd(total, bs, k) ==
    [start |-> (k - 1) * bs, end |-> total,
     i |-> (k - 1) * bs, phase |-> "build", local |-> OkStatus]

Shard(total, bs, k) ==
    [start |-> (k - 1) * bs, end |-> Min(k * bs, total),
     i |-> (k - 1) * bs, phase |-> "build", local |-> OkStatus]

Shards(total, bs) == [k \in 1..NumShards(total, bs) |-> Shard(total, bs, k)]

\* ------------------------------------------------------------ the state
VARIABLES
    pc,             \* where Compute / ComputeLarge stands
    status,         \* context->status()
    output,         \* the output tensor: [rows, cols, cell], or NoTensor
    programs,       \* std::vector<Program>
    num_qubits,     \* std::vector<int>
    pauli_sums,     \* std::vector<std::vector<PauliSum>>
    input_shape,    \* the dimensions of the input tensors read at lines 60-61
    maps,           \* std::vector<SymbolMap>
    qsim_circuits,  \* std::vector<QsimCircuit>
    fused_circuits, \* std::vector<std::vector<GateFused>>
    parse_status,   \* the shared status of the construction phase
    p_lock,         \* the mutex: 0 when free, else the shard holding it
    shards,         \* the calls construct_f(start, end) ParallelFor made
    block,          \* the block size ParallelFor chose (0 before the call)
    builds,         \* history: how often QsimCircuitFromProgram ran per index
    recorded,       \* history: the indices whose error reached the
                    \* critical section, in order
    largest_nq,     \* ComputeLarge: the capacity of sv and scratch
    sv,             \* ComputeLarge: the state vector
    scratch,        \* ComputeLarge: the scratch vector
    i,              \* ComputeLarge: the circuit index of the outer loop
    j,              \* ComputeLarge: the index of the inner loop that runs
    log             \* history: the calls into the simulator and the writes
                    \* to the output tensor, in order

vars == <<pc, status, output, programs, num_qubits, pauli_sums, input_shape, maps,
          qsim_circuits, fused_circuits, parse_status, p_lock, shards, block,
          builds, recorded, largest_nq, sv, scratch, i, j, log>>

inputVars == <<programs, num_qubits, pauli_sums, input_shape, maps>>

constructVars == <<qsim_circuits, fused_circuits, parse_status, p_lock, shards,
                   block, builds, recorded>>

simVars == <<largest_nq, sv, scratch, i, j, log>>

\* No dimension was read yet.
NoShape == [batch |-> 0, ops |-> 0]

NoTensor == [rows |-> 0, cols |-> 0, cell |-> << >>, allocated |-> FALSE]

\* No vector was created yet.
NoVector == [num_qubits |-> 0, bit |-> << >>]

\* A cell of the tensor: << >> while nothing was written, else <<value>>.
Unwritten == << >>

Init ==
    /\ pc = "entry"
    /\ status = OkStatus
    /\ output = NoTensor
    /\ programs = << >>
    /\ num_qubits = << >>
    /\ pauli_sums = << >>
    /\ input_shape = NoShape
    /\ maps = << >>
    /\ qsim_circuits = << >>
    /\ fused_circuits = << >>
    /\ parse_status = OkStatus
    /\ p_lock = 0
    /\ shards = << >>
    /\ block = 0
    /\ builds = << >>
    /\ recorded = << >>
    /\ largest_nq = 0
    /\ sv = NoVector
    /\ scratch = NoVector
    /\ i = 0
    /\ j = 0
    /\ log = << >>

\* OP_REQUIRES / OP_REQUIRES_OK failing: the status is set and Compute returns.
Fail(s) ==
    /\ status' = s
    /\ pc' = "done"

\* Lines 54-57: OP_REQUIRES(num_inputs == 4).
CheckNumInputs ==
    /\ pc = "entry"
    /\ \E num_inputs \in {RequiredInputs - 1, RequiredInputs} :
          IF num_inputs = RequiredInputs
          THEN pc' = "alloc" /\ UNCHANGED status
          ELSE Fail(InvalidArgument("Expected 4 inputs", num_inputs))
    /\ UNCHANGED <<output, inputVars, constructVars, simVars>>

\* The two dimensions added in the other order.
OutputShapeSwapped(batch_size, op_size) == [rows |-> op_size, cols |-> batch_size]

\* Lines 62-64: output_shape.AddDim(batch size), output_shape.AddDim(op size).
OutputShape(batch_size, op_size) == [rows |-> batch_size, cols |-> op_size]

\* Lines 66-72: allocate_output gives a tensor of the shape, its cells not
\* written.
AllocatedTensor(shape) ==
    [rows |-> shape.rows, cols |-> shape.cols,
     cell |-> [c \in Cells(shape.rows, shape.cols) |-> Unwritten],
     allocated |-> TRUE]

\* Lines 59-72: the output tensor gets the shape
\* input(0).dim_size(0) x input(3).dim_size(1); its cells are not written.
AllocateOutput ==
    /\ pc = "alloc"
    /\ \E output_dim_batch_size \in 0..MaxB, output_dim_op_size \in 0..MaxM :
          /\ input_shape' = [batch |-> output_dim_batch_size, ops |-> output_dim_op_size]
          /\ output' = AllocatedTensor(OutputShape(output_dim_batch_size, output_dim_op_size))
    /\ pc' = "parse_programs"
    /\ UNCHANGED <<status, programs, num_qubits, pauli_sums, maps, constructVars, simVars>>

\* The numbers of pauli sums the circuits of a batch may come with: the
\* op size for every circuit in a well-formed batch, anything up to one
\* more in others.
PauliCounts(batch_size, op_size) == [0..(batch_size - 1) -> 0..(op_size + 1)]

\* The check on the pauli sums left out.
PauliShapeUnchecked(counts, op_size) == TRUE

\* GetProgramsAndNumQubits: every circuit comes with as many pauli sums as
\* the op size.
PauliShapeOk(counts, op_size) == \A n \in DOMAIN counts : counts[n] = op_size

PauliShapeMessage == "Number of pauli sums does not match the op size"

\* Lines 74-78: GetProgramsAndNumQubits fills programs, num_qubits and
\* pauli_sums from inputs 0 and 3, whose dimensions were read at lines
\* 60-61, or fails: a proto that does not parse, or a circuit whose number
\* of pauli sums is not the op size.
ParsePrograms ==
    /\ pc = "parse_programs"
    /\ \/ /\ \E counts \in PauliCounts(input_shape.batch, input_shape.ops) :
                /\ PauliShapeOk(counts, input_shape.ops)
                /\ \E ps \in [0..(input_shape.batch - 1) -> ProgramSet] :
                   \E bad \in MalformedChoices(ps, input_shape.batch, input_shape.ops) :
                      /\ programs' = ps
                      /\ num_qubits' = [n \in 0..(input_shape.batch - 1) |-> ps[n].nq]
                      /\ pauli_sums' = [n \in 0..(input_shape.batch - 1) |->
                                          [m \in 0..(counts[n] - 1) |->
                                             PauliSumOf(ps[n].nq, m, <<n, m>> \in bad)]]
          /\ pc' = "parse_maps"
          /\ UNCHANGED status
       \/ /\ \E counts \in PauliCounts(input_shape.batch, input_shape.ops) :
                /\ ~PauliShapeOk(counts, input_shape.ops)
                /\ Fail(InvalidArgument(PauliShapeMessage,
                                        CHOOSE n \in DOMAIN counts : counts[n] # input_shape.ops))
          /\ UNCHANGED <<programs, num_qubits, pauli_sums>>
       \/ /\ Fail(InvalidArgument("Unparseable proto", 0))
          /\ UNCHANGED <<programs, num_qubits, pauli_sums>>
    /\ UNCHANGED <<output, input_shape, maps, constructVars, simVars>>

\* Lines 80-81: GetSymbolMaps fills maps with one map per row of
\* symbol_values, or fails.
ParseMaps ==
    /\ pc = "parse_maps"
    /\ \/ /\ \E rows \in 0..MaxB : maps' = [n \in 0..(rows - 1) |-> "map"]
          /\ pc' = "check_sizes"
          /\ UNCHANGED status
       \/ /\ Fail(InvalidArgument("Input symbol names and values do not match", 0))
          /\ UNCHANGED maps
    /\ UNCHANGED <<output, programs, num_qubits, pauli_sums, input_shape, constructVars, simVars>>

\* std::vector::size().
Size(v) == Cardinality(DOMAIN v)

\* The test of line 83 left out.
SizesMatchUnchecked(ps, ms) == TRUE

\* Line 83: the condition of the OP_REQUIRES.
SizesMatch(ps, ms) == Size(ps) = Size(ms)

\* Lines 85-87: the message of the OP_REQUIRES.
MismatchMessage == "Number of circuits and symbol_values do not match"

\* Lines 83-87: OP_REQUIRES(programs.size() == maps.size()).
CheckSizes ==
    /\ pc = "check_sizes"
    /\ IF SizesMatch(programs, maps)
       THEN pc' = "dispatch" /\ UNCHANGED status
       ELSE Fail(InvalidArgument(MismatchMessage, Size(maps)))
    /\ UNCHANGED <<output, inputVars, constructVars, simVars>>

\* ------------------------------------------------- construction phase
\* Lines 89-107: the circuit vectors get one default element per program,
\* parse_status starts OK, and ParallelFor shards [0, programs.size()) by a
\* block size of its choosing and calls construct_f on every shard; it makes
\* no call when there is nothing to do.
Dispatch ==
    /\ pc = "dispatch"
    /\ qsim_circuits' = [n \in DOMAIN programs |-> EmptyCircuit]
    /\ fused_circuits' = [n \in DOMAIN programs |-> << >>]
    /\ builds' = [n \in DOMAIN programs |-> 0]
    /\ parse_status' = OkStatus
    /\ IF Size(programs) = 0
       THEN shards' = << >> /\ block' = 0
       ELSE \E bs \in 1..Size(programs) :
               /\ shards' = Shards(Size(programs), bs)
               /\ block' = bs
    /\ pc' = "join"
    /\ UNCHANGED <<status, output, inputVars, p_lock, recorded, simVars>>

\* The builder handed the first slot of the shard for every index.
BuildSlotOfShard(sh) == sh.start

\* Line 100: the slots construct_f hands to the builder for index n.
BuildSlot(sh) == sh.i

\* The loop of construct_f leaving its shard at the first failed build.
AdvanceUnlessFailed(sh) ==
    IF sh.local.code # "OK"
    THEN [sh EXCEPT !.phase = "done"]
    ELSE [sh EXCEPT !.i = sh.i + 1,
                    !.phase = IF sh.i + 1 < sh.end THEN "build" ELSE "done"]

\* Line 97: i++ and the loop test of construct_f.
Advance(sh) ==
    [sh EXCEPT !.i = sh.i + 1,
               !.phase = IF sh.i + 1 < sh.end THEN "build" ELSE "done"]

\* Lines 98-101: one circuit of shard k is built; a failure goes on to the
\* critical section of NESTED_FN_STATUS_SYNC.
Build(k) ==
    /\ pc = "join"
    /\ shards[k].phase = "build"
    /\ LET sh == shards[k]
           slot == BuildSlot(sh)
           r == QsimCircuitFromProgram(programs[sh.i], num_qubits[sh.i],
                                       qsim_circuits[slot], fused_circuits[slot])
       IN  /\ qsim_circuits' = [qsim_circuits EXCEPT ![slot] = r.circuit]
           /\ fused_circuits' = [fused_circuits EXCEPT ![slot] = r.fused]
           /\ builds' = [builds EXCEPT ![sh.i] = @ + 1]
           /\ shards' = [shards EXCEPT ![k] =
                            IF r.status.code = "OK"
                            THEN Advance([sh EXCEPT !.local = r.status])
                            ELSE [sh EXCEPT !.local = r.status, !.phase = "lock"]]
    /\ UNCHANGED <<pc, status, output, inputVars, parse_status, p_lock, block,
                   recorded, simVars>>

\* Line 101, NESTED_FN_STATUS_SYNC: c_lock.lock().
Lock(k) ==
    /\ pc = "join"
    /\ shards[k].phase = "lock"
    /\ p_lock = 0
    /\ p_lock' = k
    /\ shards' = [shards EXCEPT ![k].phase = "record"]
    /\ UNCHANGED <<pc, status, output, inputVars, qsim_circuits, fused_circuits,
                   parse_status, block, builds, recorded, simVars>>

\* Line 101, NESTED_FN_STATUS_SYNC: the shared status takes the local one.
Record(k) ==
    /\ pc = "join"
    /\ shards[k].phase = "record"
    /\ parse_status' = StatusSync(parse_status, shards[k].local)
    /\ recorded' = Append(recorded, shards[k].i)
    /\ shards' = [shards EXCEPT ![k].phase = "unlock"]
    /\ UNCHANGED <<pc, status, output, inputVars, qsim_circuits, fused_circuits,
                   p_lock, block, builds, simVars>>

\* Line 101, NESTED_FN_STATUS_SYNC: c_lock.unlock(); the loop of
\* construct_f goes on with the next index.
Unlock(k) ==
    /\ pc = "join"
    /\ shards[k].phase = "unlock"
    /\ p_lock' = 0
    /\ shards' = [shards EXCEPT ![k] = Advance(shards[k])]
    /\ UNCHANGED <<pc, status, output, inputVars, qsim_circuits, fused_circuits,
                   parse_status, block, builds, recorded, simVars>>

\* ParallelFor never returning.
ParallelForNeverDone(shs) == FALSE

\* ParallelFor returning with the first call of construct_f that returned.
ParallelForDoneEarly(shs) == \E k \in DOMAIN shs : shs[k].phase = "done"

\* Lines 106-107: ParallelFor returns when every call of construct_f returned.
ParallelForDone(shs) == \A k \in DOMAIN shs : shs[k].phase = "done"

Join ==
    /\ pc = "join"
    /\ ParallelForDone(shards)
    /\ pc' = "check_status"
    /\ UNCHANGED <<status, output, inputVars, constructVars, simVars>>

\* The test of line 108 left out.
ConstructionOkUnchecked(s) == TRUE

\* Line 108: the test of OP_REQUIRES_OK(context, parse_status).
ConstructionOk(s) == s.code = "OK"

\* Line 108: OP_REQUIRES_OK(context, parse_status).
CheckParseStatus ==
    /\ pc = "check_status"
    /\ IF ConstructionOk(parse_status)
       THEN pc' = "sim_init" /\ UNCHANGED status
       ELSE Fail(parse_status)
    /\ UNCHANGED <<output, inputVars, constructVars, simVars>>

\* ------------------------------------------------- the qsim primitives
\* A vector holds, per qubit, the set of bits it may hold: {0} or {1} once
\* written, {0, 1} while the memory is as the allocation left it.
\* StateSpace::Create(n): n qubits of memory nobody has written.
Create(n) == [num_qubits |-> n, bit |-> [q \in 0..(n - 1) |-> {0, 1}]]

\* StateSpace::SetStateZero(v): every qubit of the vector is |0>.
SetStateZero(v) == [v EXCEPT !.bit = [q \in DOMAIN v.bit |-> {0}]]

\* One X gate on a vector; a qubit the vector does not have is outside its
\* memory, and the vector itself is left alone.
ApplyGate(g, v) ==
    IF g.qubit \in DOMAIN v.bit
    THEN [v EXCEPT !.bit[g.qubit] = {1 - b : b \in @}]
    ELSE v

RECURSIVE ApplyGates(_, _)
ApplyGates(gates, v) ==
    IF gates = << >> THEN v ELSE ApplyGates(Tail(gates), ApplyGate(Head(gates), v))

\* qsim::ApplyFusedGate(sim, fused_gate, v): the gates of the fused gate,
\* in order.
ApplyFusedGate(fg, v) == ApplyGates(fg.gates, v)

\* ComputeExpectationQsim(pauli_sum, sim, ss, sv, scratch, &exp_v): the
\* outcomes it may have.  A malformed sum is an error; else the sum is
\* applied to a copy of sv in scratch and <sv|scratch> is the value: +1 for
\* bit 0 and -1 for bit 1 of the qubit of the Z term.
ComputeExpectationQsim(ps, v, scr) ==
    IF ps.malformed
    THEN {[status |-> InvalidArgument("Could not compute expectation", ps.qubit),
           exp_v |-> 0, scratch |-> scr]}
    ELSE {[status |-> OkStatus, exp_v |-> 1 - 2 * b,
           scratch |-> [scr EXCEPT !.bit = [q \in DOMAIN scr.bit |->
                                              IF q \in DOMAIN v.bit THEN v.bit[q] ELSE @[q]]]]
            : b \in (IF ps.qubit \in DOMAIN v.bit THEN v.bit[ps.qubit] ELSE {0, 1})}

\* --------------------------------------------------- simulation phase
Event(op, n, m) == [op |-> op, i |-> n, j |-> m, cap |-> largest_nq]

\* Lines 110-115 and 133-137: ComputeLarge is entered and creates the
\* simulation context.
SimInit ==
    /\ pc = "sim_init"
    /\ largest_nq' = InitialCapacity
    /\ sv' = Create(InitialCapacity)
    /\ scratch' = Create(InitialCapacity)
    /\ i' = 0
    /\ pc' = "loop"
    /\ UNCHANGED <<status, output, inputVars, constructVars, j, log>>

\* Line 142: the test of the loop over the circuits.
LoopHead ==
    /\ pc = "loop"
    /\ pc' = IF i < Size(fused_circuits) THEN "grow" ELSE "done"
    /\ UNCHANGED <<status, output, inputVars, constructVars, simVars>>

\* The test of line 145 switched off: the context never grows.
NeedsGrowthNever(nq, largest) == FALSE

\* The test of line 145 taken for "is not smaller" instead of "is larger".
NeedsGrowthOrEqual(nq, largest) == nq >= largest

\* The test of line 145 taken for "differs" instead of "is larger".
NeedsGrowthOrShrink(nq, largest) == nq # largest

\* Line 145: the test that switches to a larger state space.
NeedsGrowth(nq, largest) == nq > largest

\* Lines 143-150: both vectors are created anew when the circuit needs more
\* qubits than the context has.
Grow ==
    /\ pc = "grow"
    /\ LET nq == num_qubits[i]
       IN  IF NeedsGrowth(nq, largest_nq)
           THEN /\ largest_nq' = nq
                /\ sv' = Create(nq)
                /\ scratch' = Create(nq)
                /\ log' = Append(log, [Event("grow", i, 0) EXCEPT !.cap = nq])
           ELSE UNCHANGED <<largest_nq, sv, scratch, log>>
    /\ pc' = "zero"
    /\ UNCHANGED <<status, output, inputVars, constructVars, i, j>>

\* The reset of line 154 left out.
ResetSkipped(v) == v

\* Line 154: the reset the loop makes before the gates are applied.
ResetState(v) == SetStateZero(v)

\* Line 154: ss.SetStateZero(sv).
Zero ==
    /\ pc = "zero"
    /\ sv' = ResetState(sv)
    /\ log' = Append(log, Event("zero", i, 0))
    /\ j' = 0
    /\ pc' = "gates"
    /\ UNCHANGED <<status, output, inputVars, constructVars, largest_nq, scratch, i>>

\* Lines 155-157: the fused gates of circuit i, one per step; gate j of the
\* source is element j + 1 of the sequence.
Gates ==
    /\ pc = "gates"
    /\ IF j < Len(fused_circuits[i])
       THEN /\ sv' = ApplyFusedGate(fused_circuits[i][j + 1], sv)
            /\ log' = Append(log, Event("gate", i, j))
            /\ j' = j + 1
            /\ pc' = "gates"
       ELSE /\ j' = 0
            /\ pc' = "obs"
            /\ UNCHANGED <<sv, log>>
    /\ UNCHANGED <<status, output, inputVars, constructVars, largest_nq, scratch, i>>

\* The test of line 160 off by one.
IsEmptyProgramOffByOne(fused) == Len(fused) = 1

\* The test of line 160 left out.
IsEmptyProgramNever(fused) == FALSE

\* Line 160: the test for an empty program.
IsEmptyProgram(fused) == Len(fused) = 0

\* The write with the column index left at 0.
WriteCellFirstColumn(out, n, m, v) == [out EXCEPT !.cell[<<n, 0>>] = <<v>>]

\* Lines 161 and 168: (*output_tensor)(n, m) = v.
WriteCell(out, n, m, v) == [out EXCEPT !.cell[<<n, m>>] = <<v>>]

\* A failed expectation that leaves a cleared output behind.
ExpectationFailedClears(s) ==
    /\ Fail(s)
    /\ output' = [output EXCEPT !.cell = [c \in DOMAIN @ |-> Unwritten]]
    /\ UNCHANGED <<i, j>>

\* A failed expectation that is noted while the loop goes on.
ExpectationFailedContinues(s) ==
    /\ status' = s
    /\ j' = j + 1
    /\ UNCHANGED <<pc, output, i>>

\* A failed expectation whose exp_v, still 0.0, is written before the return.
ExpectationFailedWrites(s) ==
    /\ Fail(s)
    /\ output' = WriteCell(output, i, j, 0)
    /\ UNCHANGED <<i, j>>

\* Lines 165-167: what OP_REQUIRES_OK does with a failed expectation: the
\* status is set and ComputeLarge returns, and Compute with it.
ExpectationFailed(s) == Fail(s) /\ UNCHANGED <<output, i, j>>

\* Lines 158-169: one pauli sum of circuit i per step: the sentinel for an
\* empty program, else the expectation value or the failure of the call.
Obs ==
    /\ pc = "obs"
    /\ IF j < Size(pauli_sums[i])
       THEN IF IsEmptyProgram(fused_circuits[i])
            THEN /\ output' = WriteCell(output, i, j, Sentinel)
                 /\ log' = Append(log, Event("write", i, j))
                 /\ j' = j + 1
                 /\ UNCHANGED <<pc, status, scratch, i>>
            ELSE \E r \in ComputeExpectationQsim(pauli_sums[i][j], sv, scratch) :
                    /\ scratch' = r.scratch
                    /\ IF r.status.code = "OK"
                       THEN /\ output' = WriteCell(output, i, j, r.exp_v)
                            /\ log' = Append(Append(log, Event("eval", i, j)),
                                             Event("write", i, j))
                            /\ j' = j + 1
                            /\ UNCHANGED <<pc, status, i>>
                       ELSE /\ ExpectationFailed(r.status)
                            /\ log' = Append(log, Event("eval", i, j))
       ELSE /\ i' = i + 1
            /\ pc' = "loop"
            /\ UNCHANGED <<status, output, scratch, j, log>>
    /\ UNCHANGED <<inputVars, constructVars, largest_nq, sv>>

\* ------------------------------------------------------ specification
Next ==
    \/ CheckNumInputs
    \/ AllocateOutput
    \/ ParsePrograms
    \/ ParseMaps
    \/ CheckSizes
    \/ Dispatch
    \/ \E k \in DOMAIN shards : Build(k)
    \/ \E k \in DOMAIN shards : Lock(k)
    \/ \E k \in DOMAIN shards : Record(k)
    \/ \E k \in DOMAIN shards : Unlock(k)
    \/ Join
    \/ CheckParseStatus
    \/ SimInit
    \/ LoopHead
    \/ Grow
    \/ Zero
    \/ Gates
    \/ Obs

Spec == Init /\ [][Next]_vars

\* Whenever a thread of the invocation, the one that runs Compute or a
\* worker of the pool, has a step to take, a step is taken: what every
\* scheduler that does not halt the process gives, and less than fairness
\* to each worker.
FairSpec == Spec /\ WF_vars(Next)

\* ------------------------------------------------------------ helpers
SimPcs == {"sim_init", "loop", "grow", "zero", "gates", "obs"}

\* ParallelFor has returned: the barrier of the construction phase is passed.
PastBarrier == pc \in SimPcs \cup {"check_status"} \/ (pc = "done" /\ block > 0)

\* What the builder returns for index n, from the inputs alone.
RefBuilt(n) == QsimCircuitFromProgram(programs[n], num_qubits[n], EmptyCircuit, << >>)

\* The build of some circuit of the batch fails.
SomeBuildFails == \E n \in DOMAIN programs : RefBuilt(n).status.code # "OK"

\* Nothing of the simulation phase has happened.
SimNeverStarted ==
    /\ pc \notin SimPcs
    /\ sv = NoVector /\ scratch = NoVector /\ largest_nq = 0
    /\ log = << >>
    /\ \A c \in DOMAIN output.cell : output.cell[c] = Unwritten

RECURSIVE ApplyAllFused(_, _)
ApplyAllFused(fused, v) ==
    IF fused = << >> THEN v ELSE ApplyAllFused(Tail(fused), ApplyFusedGate(Head(fused), v))

\* The values row n, column m can take when the fused circuit fc of nq
\* qubits is simulated alone, in vectors created for exactly nq qubits.
FreshValues(fc, nq, ps) ==
    IF Len(fc) = 0
    THEN {Sentinel}
    ELSE {r.exp_v : r \in ComputeExpectationQsim(
                             ps, ApplyAllFused(fc, SetStateZero(Create(nq))), Create(nq))}

MaxOf(S) == CHOOSE x \in S : \A y \in S : y <= x

\* The capacity the loop has once circuit n is past line 150: the initial
\* one or the largest qubit count of circuits 0..n.
CapacityAfter(n) == MaxOf({InitialCapacity} \cup {num_qubits[k] : k \in 0..n})

\* Circuit n is past the growth step of lines 145-150.
PastGrowth(n) == largest_nq > 0 /\ (n < i \/ (n = i /\ pc \in {"zero", "gates", "obs", "done"}))

\* The place of an event in the body of the loop of line 142.
OpRank(op) == CASE op = "grow" -> 0 [] op = "zero" -> 1 [] op = "gate" -> 2 [] OTHER -> 3

\* After event e no gate of its circuit is left to apply.
GatesDone(e) ==
    \/ e.op \in {"eval", "write"}
    \/ e.op = "zero" /\ Len(fused_circuits[e.i]) = 0
    \/ e.op = "gate" /\ e.j + 1 = Len(fused_circuits[e.i])

\* The indices shard sh has handed to the builder so far.
BuiltBy(sh) ==
    {n \in sh.start..(sh.end - 1) :
        n < sh.i \/ (n = sh.i /\ sh.phase \in {"lock", "record", "unlock"})}

\* How often event e is in the log.
Times(e) == Cardinality({p \in 1..Len(log) : log[p] = e})

\* The expectation primitive has reported an error.
ExpectationError == status.what = "Could not compute expectation"

\* ------------------------------------------------------------- claims
\* C1: first-failure-wins.  Whenever errors have reached the critical
\* section of the construction phase, the shared status is the error of
\* the first of them, in every interleaving of the shards, and that error
\* is the status Compute ends with after the barrier.
FirstFailureWins ==
    /\ recorded = << >> => parse_status = OkStatus
    /\ recorded # << >> => parse_status = RefBuilt(Head(recorded)).status
    /\ (pc = "done" /\ PastBarrier /\ recorded # << >>)
          => status = RefBuilt(Head(recorded)).status

\* Two shards recorded different errors and Compute has ended.
FirstFailureWinsWitness ==
    /\ pc = "done"
    /\ Len(recorded) >= 2
    /\ RefBuilt(recorded[1]).status # RefBuilt(recorded[2]).status

\* C2: all-or-nothing barrier.  When the build of some circuit fails, no
\* step of the simulation phase is ever taken (no vector created, no gate
\* applied, no expectation estimated, no cell written) and Compute ends
\* with a failed status.
AllOrNothingConstruction ==
    SomeBuildFails => (SimNeverStarted /\ (pc = "done" => status.code # "OK"))

\* Compute has ended after the barrier for a batch in which one circuit
\* failed to build and another one was built.
AllOrNothingWitness ==
    /\ pc = "done" /\ PastBarrier
    /\ SomeBuildFails
    /\ \E n \in DOMAIN programs :
          /\ RefBuilt(n).status.code = "OK"
          /\ builds[n] = 1
          /\ Len(fused_circuits[n]) > 0

\* C3: full barrier without cancellation.  Once ParallelFor has returned,
\* every shard has run to its end and every index of the batch has been
\* built exactly once, also when builds failed; parse_status is tested
\* only then.
FullBarrier ==
    PastBarrier =>
        /\ ParallelForDone(shards)
        /\ \A n \in DOMAIN programs : builds[n] = 1

\* The status is about to be tested; the first index of a shard of two
\* failed and the second index of that shard was still built.
FullBarrierWitness ==
    /\ pc = "check_status"
    /\ parse_status.code # "OK"
    /\ block >= 2
    /\ RefBuilt(0).status.code # "OK"
    /\ builds[1] = 1

\* The values of cell (n, m) that the inputs alone determine: circuit n as
\* the builder returns it for program n, simulated on its own.
ExpectedCell(n, m) ==
    FreshValues(RefBuilt(n).fused, num_qubits[n], pauli_sums[n][m])

\* C4: determinism under partitioning.  For a batch whose circuits all
\* build, the built circuits after the barrier and the output matrix at the
\* end are those the inputs alone determine, whatever block size ParallelFor
\* chose and however the shards interleaved; so any two executions on the
\* same batch end with the same circuits and the same matrix.
DeterministicUnderPartitioning ==
    (PastBarrier /\ ~SomeBuildFails) =>
        /\ \A n \in DOMAIN programs :
              /\ qsim_circuits[n] = RefBuilt(n).circuit
              /\ fused_circuits[n] = RefBuilt(n).fused
        /\ (pc = "done" /\ status.code = "OK") =>
              \A c \in DOMAIN output.cell : {output.cell[c][1]} = ExpectedCell(c[1], c[2])

\* A batch of two circuits, the second with gates, built in one shard of
\* two, ended with its matrix written.
DeterministicWitness ==
    /\ pc = "done" /\ status.code = "OK"
    /\ Size(programs) >= 2 /\ block >= 2
    /\ Len(fused_circuits[1]) > 0
    /\ output.cols >= 1

\* C5: growth correctness.  Every cell written so far holds the value that
\* simulating its circuit alone, in vectors created for exactly its own
\* qubit count, gives: nothing the earlier circuits left in the reused,
\* grown vectors reaches it.
NoStateLeak ==
    \A c \in DOMAIN output.cell :
        output.cell[c] # Unwritten =>
            FreshValues(fused_circuits[c[1]], num_qubits[c[1]], pauli_sums[c[1]][c[2]])
                = {output.cell[c][1]}

\* A cell of a circuit with gates was written from a vector that is larger
\* than the circuit and in which the circuit before it had applied gates.
NoStateLeakWitness ==
    \E n \in DOMAIN programs :
        /\ n >= 1
        /\ output.cols >= 1
        /\ output.cell[<<n, 0>>] # Unwritten
        /\ Len(fused_circuits[n]) > 0 /\ Len(fused_circuits[n - 1]) > 0
        /\ num_qubits[n] < num_qubits[n - 1]
        /\ sv.num_qubits > num_qubits[n]

\* C6: empty-circuit sentinel.  After a successful invocation every cell of
\* the row of a circuit without fused gates is -2.0, whatever its pauli
\* sums are.
EmptyCircuitSentinel ==
    (pc = "done" /\ status.code = "OK" /\ PastBarrier) =>
        \A n \in DOMAIN fused_circuits :
            Len(fused_circuits[n]) = 0 =>
                \A m \in 0..(output.cols - 1) : output.cell[<<n, m>>] = <<Sentinel>>

\* A successful invocation with an empty circuit whose list of pauli sums
\* holds a malformed one.
EmptyCircuitSentinelWitness ==
    /\ pc = "done" /\ status.code = "OK"
    /\ \E n \in DOMAIN pauli_sums : \E m \in DOMAIN pauli_sums[n] :
          /\ Len(fused_circuits[n]) = 0
          /\ pauli_sums[n][m].malformed
          /\ output.cols >= 2

\* C7: the capacity never shrinks.  No step lowers largest_nq, whatever the
\* order of the qubit counts.
CapacityMonotone == [][largest_nq' >= largest_nq]_vars

\* The pass has reached a circuit that is smaller than the grown capacity.
CapacityMonotoneWitness ==
    /\ pc = "zero"
    /\ largest_nq > InitialCapacity
    /\ num_qubits[i] < largest_nq

\* C8: an expectation error ends the invocation at once.  When the
\* primitive has failed on pauli sum j of circuit i, Compute has returned
\* with a failed status and the failed call is the last thing that
\* happened: no later pauli sum of circuit i was evaluated or written and
\* no circuit after i was reset, simulated or evaluated.
ExpectationErrorAborts ==
    ExpectationError =>
        /\ pc = "done"
        /\ status.code # "OK"
        /\ log # << >>
        /\ log[Len(log)] = Event("eval", i, j)
        /\ \A e \in 1..Len(log) :
              /\ log[e].i <= i
              /\ (log[e].i = i /\ log[e].op \in {"eval", "write"}) => log[e].j <= j

\* The primitive failed on the first pauli sum of a circuit that has a
\* second one and is followed by another circuit.
ExpectationErrorAbortsWitness ==
    /\ ExpectationError
    /\ j = 0 /\ output.cols >= 2
    /\ i + 1 < Size(programs)

\* C9 as stated: when the primitive fails on a pauli sum of circuit i, no
\* cell of row i has been written.
NoCellOfFailedRowWritten ==
    ExpectationError =>
        \A m \in 0..(output.cols - 1) : output.cell[<<i, m>>] = Unwritten

\* C9 amended: when the primitive fails on pauli sum j of circuit i, no
\* cell (i, m) with m >= j has been written, and the cells (i, m) with
\* m < j hold the values evaluated before the failure.
FailedRowWrittenUpToFailure ==
    ExpectationError =>
        \A m \in 0..(output.cols - 1) :
            IF m < j
            THEN {output.cell[<<i, m>>]} =
                    {<<v>> : v \in FreshValues(fused_circuits[i], num_qubits[i], pauli_sums[i][m])}
            ELSE output.cell[<<i, m>>] = Unwritten

\* The primitive failed on the second pauli sum of a circuit.
FailedRowWitness ==
    /\ ExpectationError
    /\ j >= 1

\* C10: a batch with as many programs as it has not symbol-value rows is
\* rejected before any work: nothing is dispatched or built, no vector is
\* created, no cell is written, and Compute ends with the argument error.
SizeMismatchRejected ==
    Size(programs) # Size(maps) =>
        /\ pc \in {"parse_maps", "check_sizes", "done"}
        /\ qsim_circuits = << >> /\ fused_circuits = << >>
        /\ builds = << >> /\ shards = << >> /\ recorded = << >>
        /\ SimNeverStarted
        /\ pc = "done" => status.code = "InvalidArgument"
        /\ (pc = "done" /\ Size(maps) > 0) => status.what = MismatchMessage

\* Two programs met one row of symbol values and Compute has ended.
SizeMismatchWitness ==
    /\ pc = "done"
    /\ Size(programs) = 2 /\ Size(maps) = 1
    /\ status = InvalidArgument(MismatchMessage, 1)

OutputShapeFixed ==
    /\ [](output.allocated =>
             /\ output.rows = input_shape.batch /\ output.cols = input_shape.ops
             /\ DOMAIN output.cell = Cells(input_shape.batch, input_shape.ops))
    /\ []((pc \in SimPcs \/ (pc = "done" /\ status.code = "OK")) =>
             /\ output.allocated
             /\ output.rows = Size(programs)
             /\ \A n \in DOMAIN pauli_sums : output.cols = Size(pauli_sums[n]))
    /\ [](~output.allocated => (builds = << >> /\ shards = << >>))
    /\ [][output.allocated =>
             /\ output'.allocated
             /\ output'.rows = output.rows /\ output'.cols = output.cols
             /\ DOMAIN output'.cell = DOMAIN output.cell]_vars

\* A batch of two programs with one pauli sum each ended well, every cell
\* written.
OutputShapeFixedWitness ==
    /\ pc = "done" /\ status.code = "OK"
    /\ Size(programs) = 2 /\ output.cols = 1
    /\ \A c \in DOMAIN output.cell : output.cell[c] # Unwritten

\* C13: the state vector and the scratch vector have the same size at every
\* point of the pass, the capacity; once circuit n is past the growth step
\* the capacity is the larger of 1 and the qubit counts of circuits 0..n;
\* and the vectors were created anew for circuit n exactly when its qubit
\* count was larger than the capacity before it.
VectorsSizedTogether ==
    /\ largest_nq > 0 =>
          /\ sv.num_qubits = largest_nq /\ scratch.num_qubits = largest_nq
          /\ DOMAIN sv.bit = DOMAIN scratch.bit
          /\ DOMAIN sv.bit = 0..(largest_nq - 1)
    /\ (pc = "grow" \/ (pc = "loop" /\ largest_nq > 0)) => largest_nq = CapacityAfter(i - 1)
    /\ (pc \in {"zero", "gates", "obs"}) => largest_nq = CapacityAfter(i)
    /\ \A n \in DOMAIN num_qubits :
          PastGrowth(n) =>
             ((\E e \in 1..Len(log) : log[e].op = "grow" /\ log[e].i = n)
                 <=> num_qubits[n] > CapacityAfter(n - 1))
    /\ \A e \in 1..Len(log) :
          log[e].op = "grow" => log[e].cap = num_qubits[log[e].i]

\* The second circuit has as many qubits as the first, more than the
\* initial capacity: the vectors were created for the first and kept for
\* the second.
VectorsSizedTogetherWitness ==
    /\ pc = "zero" /\ i = 1
    /\ num_qubits[0] = 2 /\ num_qubits[1] = 2
    /\ largest_nq = 2

\* C14: for every circuit the steps come in the order growth (if needed),
\* reset, gates in the order of the fused sequence, pauli sums; no gate of
\* a circuit comes before its reset, none is left when its pauli sums are
\* evaluated, and at the reset and at every gate the capacity is at least
\* the qubit count of the circuit.
PerCircuitOrder ==
    /\ log # << >> => (log[1].i = 0 /\ log[1].op \in {"grow", "zero"})
    /\ \A p \in 1..(Len(log) - 1) :
          LET a == log[p]
              b == log[p + 1]
          IN  /\ a.op = "grow" => (b.op = "zero" /\ b.i = a.i)
              /\ b.op = "gate" => (b.i = a.i /\ b.j = (IF a.op = "gate" THEN a.j + 1 ELSE 0))
              /\ a.i = b.i =>
                    /\ OpRank(a.op) <= OpRank(b.op)
                    /\ OpRank(b.op) <= 1 => OpRank(a.op) < OpRank(b.op)
              /\ a.i # b.i => (b.i = a.i + 1 /\ b.op \in {"grow", "zero"})
              /\ (a.i # b.i \/ b.op \in {"eval", "write"}) => GatesDone(a)
    /\ \A e \in 1..Len(log) :
          log[e].op \in {"zero", "gate"} => log[e].cap >= num_qubits[log[e].i]

\* The second circuit needed the growth, had two gates and a pauli sum: all
\* four kinds of step happened for it.
PerCircuitOrderWitness ==
    /\ pc = "done" /\ status.code = "OK"
    /\ \E e \in 1..Len(log) : log[e].op = "grow" /\ log[e].i = 1
    /\ \E e \in 1..Len(log) : log[e].op = "gate" /\ log[e].i = 1 /\ log[e].j = 1
    /\ \E e \in 1..Len(log) : log[e].op = "eval" /\ log[e].i = 1

\* C15: the expectation primitive is never called for a circuit whose fused
\* sequence is empty, so such a circuit never makes Compute end with an
\* expectation error: a pauli sum the primitive would reject gets the
\* sentinel like any other.
EmptyCircuitNeverEvaluated ==
    /\ \A e \in 1..Len(log) :
          log[e].op = "eval" => Len(fused_circuits[log[e].i]) > 0
    /\ ExpectationError => Len(fused_circuits[i]) > 0
    /\ \A e \in 1..Len(log) :
          (log[e].op = "write" /\ Len(fused_circuits[log[e].i]) = 0) =>
              /\ output.cell[<<log[e].i, log[e].j>>] = <<Sentinel>>
              /\ e > 1 => log[e - 1].op # "eval"

\* The cell of a malformed pauli sum of an empty circuit was written, and
\* the pass went on.
EmptyCircuitNeverEvaluatedWitness ==
    \E e \in 1..Len(log) :
        /\ log[e].op = "write"
        /\ Len(fused_circuits[log[e].i]) = 0
        /\ pauli_sums[log[e].i][log[e].j].malformed
        /\ e < Len(log)

\* C16: when the pass ends on an expectation error at circuit i, every cell
\* of the rows before i holds the value written for it, and no cell of a
\* row after i has been written.
EarlierRowsKeptLaterRowsUntouched ==
    ExpectationError =>
        \A n \in 0..(output.rows - 1), m \in 0..(output.cols - 1) :
            /\ n < i => \E v \in FreshValues(fused_circuits[n], num_qubits[n], pauli_sums[n][m]) :
                           output.cell[<<n, m>>] = <<v>>
            /\ n > i => output.cell[<<n, m>>] = Unwritten

\* The primitive failed at the second circuit, after the first row was
\* written with expectation values.
EarlierRowsKeptWitness ==
    /\ ExpectationError
    /\ i = 1 /\ output.cols >= 1
    /\ Len(fused_circuits[0]) > 0
    /\ \A m \in 0..(output.cols - 1) : output.cell[<<0, m>>] # Unwritten

\* C17: cells are written in the order of the pass: the write events come
\* in increasing order of (row, column), so no cell is written twice; a
\* cell is written exactly when its event happened; and a cell of row n is
\* written after every cell of the rows before n and after the reset and
\* all gates of circuit n.
CellsWrittenInPassOrder ==
    /\ \A c \in DOMAIN output.cell :
          output.cell[c] # Unwritten <=>
             \E e \in 1..Len(log) : log[e].op = "write" /\ <<log[e].i, log[e].j>> = c
    /\ \A p \in 1..Len(log) :
          log[p].op = "write" =>
             LET b == log[p]
                 a == log[IF log[p - 1].op = "eval" THEN p - 2 ELSE p - 1]
             IN  /\ p > 1
                 /\ a.i = b.i
                 /\ GatesDone(a)
                 /\ b.j = (IF a.op = "write" THEN a.j + 1 ELSE 0)
                 /\ \A n \in 0..(b.i - 1), m \in 0..(output.cols - 1) :
                       output.cell[<<n, m>>] # Unwritten
    /\ \A p \in 1..(Len(log) - 1) : log[p].i <= log[p + 1].i

\* Two rows of two cells were written, the second row by a circuit with
\* gates.
CellsWrittenInPassOrderWitness ==
    /\ pc = "done" /\ status.code = "OK"
    /\ output.rows = 2 /\ output.cols = 2
    /\ Len(fused_circuits[1]) > 0
    /\ \A c \in DOMAIN output.cell : output.cell[c] # Unwritten

\* C18: in the construction phase the indices are split among the shards
\* without overlap, the build of index n writes slot n only, and so no slot
\* is written by two shards; the shared status is the only thing more than
\* one shard writes, and it changes only in a step of the shard that holds
\* the lock.
ConstructionWritesDisjoint ==
    /\ [](pc = "join" =>
            /\ \A k \in DOMAIN shards :
                  LET sh == shards[k]
                  IN  /\ sh.start <= sh.i /\ sh.i <= sh.end
                      /\ sh.phase # "done" => sh.i < sh.end
                      /\ sh.phase = "build" => BuildSlot(sh) = sh.i
                      /\ sh.phase \in {"record", "unlock"} <=> p_lock = k
                      /\ \A h \in DOMAIN shards :
                            h # k => (sh.end <= shards[h].start \/ shards[h].end <= sh.start)
            /\ \A n \in DOMAIN programs :
                  /\ \E k \in DOMAIN shards : shards[k].start <= n /\ n < shards[k].end
                  /\ builds[n] = Cardinality({k \in DOMAIN shards : n \in BuiltBy(shards[k])})
                  /\ builds[n] <= 1
            /\ p_lock \in {0} \cup DOMAIN shards)
    /\ [][(pc = "join" /\ pc' = "join") =>
            /\ parse_status' # parse_status =>
                  (p_lock # 0 /\ p_lock' = p_lock /\ shards[p_lock].phase = "record"
                     /\ shards'[p_lock].phase = "unlock")
            /\ \A n \in DOMAIN programs :
                  (qsim_circuits'[n] # qsim_circuits[n] \/ fused_circuits'[n] # fused_circuits[n]) =>
                      \E k \in DOMAIN shards :
                          /\ shards[k].phase = "build" /\ shards[k].i = n
                          /\ shards'[k] # shards[k]
                          /\ builds'[n] = builds[n] + 1]_vars

\* One shard is in the critical section with its error while another waits
\* for the lock with its own.
ConstructionWritesDisjointWitness ==
    /\ pc = "join"
    /\ \E k, h \in DOMAIN shards :
          /\ shards[k].phase = "record" /\ p_lock = k
          /\ shards[h].phase = "lock"

\* C19: once ParallelFor has returned, every circuit of the batch has been
\* handed to the builder once, the shared status is OK exactly when every
\* build succeeded, and otherwise it is the error the build of some circuit
\* of the batch returned.
AggregatedStatusFaithful ==
    PastBarrier =>
        /\ \A n \in DOMAIN programs : builds[n] = 1
        /\ parse_status.code = "OK" <=> ~SomeBuildFails
        /\ parse_status.code # "OK" =>
              \E n \in DOMAIN programs :
                  /\ RefBuilt(n).status.code # "OK"
                  /\ parse_status = RefBuilt(n).status

\* Both builds of a batch failed with different errors, the second circuit
\* reached the critical section first, and ParallelFor has returned.
AggregatedStatusFaithfulWitness ==
    /\ pc = "check_status"
    /\ recorded = <<1, 0>>
    /\ RefBuilt(0).status # RefBuilt(1).status
    /\ parse_status = RefBuilt(1).status

\* C20: with the thread of Compute and the workers scheduled fairly, every
\* invocation reaches its end and stays there, with a status that is OK or
\* an error; no circuit is built twice and no step is taken after the end;
\* and at a successful end every build has succeeded, the primitive has
\* reported no error, every circuit was reset once, and every cell of the
\* batch size by op size matrix was written by exactly one write.
TerminatesInOneFinalState ==
    /\ <>[](pc = "done")
    /\ [][pc # "done"]_vars
    /\ [](\A n \in DOMAIN builds : builds[n] <= 1)
    /\ [](pc = "done" =>
            /\ status.code \in {"OK", "InvalidArgument"}
            /\ status.code = "OK" =>
                  /\ ~SomeBuildFails /\ ~ExpectationError
                  /\ parse_status = OkStatus
                  /\ i = Size(programs)
                  /\ \A n \in DOMAIN programs :
                        /\ builds[n] = 1
                        /\ \E e \in 1..Len(log) :
                              /\ log[e].op = "zero" /\ log[e].i = n
                              /\ Times(log[e]) = 1
                  /\ \A c \in Cells(Size(programs), input_shape.ops) :
                        /\ output.cell[c] # Unwritten
                        /\ Times([op |-> "write", i |-> c[1], j |-> c[2],
                                  cap |-> CapacityAfter(c[1])]) = 1
                        /\ Cardinality({p \in 1..Len(log) :
                              log[p].op = "write" /\ <<log[p].i, log[p].j>> = c}) = 1)

\* A batch of two circuits built by two workers ended well with all its
\* four cells written.
TerminatesInOneFinalStateWitness ==
    /\ pc = "done" /\ status.code = "OK"
    /\ Size(programs) = 2 /\ input_shape.ops = 2
    /\ Size(shards) = 2
    /\ Len(log) > 0

====
